---- MODULE Spec2Model ----
(***************************************************************************)
(* Model of the chzzk stream recorder: the live-status poll loop          *)
(* (check_stream), the launcher with its retry loop (handle_live_start /  *)
(* run_streamlink), the exit watcher thread (monitor_recording), the      *)
(* termination-signal handler and the console entry point (start/main).   *)
(*                                                                         *)
(* Three program variants exist in the repository:                        *)
(*   "script"  - callisto.py, module-level functions and globals          *)
(*   "console" - chzzk-recorder.py / hosting.py in console mode (class)   *)
(*   "web"     - hosting.py --web, poll loop in a thread started by       *)
(*               api_start, signal handler in the server's main thread    *)
(***************************************************************************)
EXTENDS Integers, Sequences, FiniteSets, TLC

\* ---- bounds of the model ------------------------------------------------
MaxPolls == 4
MaxProc == 2

\* Largest number of polls in a long run: the scenarios of five polls and the
\* five consecutive failures need a run of this length.
MaxPollsLong == 5

\* Largest number of polls in a run of the web program with its API.
MaxPollsWeb == 2

\* Largest number of polls in a run under the scheduling assumptions.
MaxPollsFair == 2

\* ---- program constants --------------------------------------------------
RetryCountMax == 3
CheckInterval == 60
LiveInterval == 10
RetryDelay == 5
ErrorDelay == 30
MaxConsecutiveErrors == 5

Variants == {"script", "console", "web"}
PollResults == {"Live", "Offline", "Unknown", "Transient"}
Procs == 1..MaxProc

VARIABLES
    variant,          \* which program runs
    pc,               \* position of the thread that runs start()/check_stream()
    deps,             \* outcome of check_dependencies: "unchecked", "ok", "fail"
    npolls,           \* number of status queries made so far
    prevPoll,         \* result of the status query before the latest one
    curPoll,          \* result of the latest status query
    scenA,            \* n if the n queries so far gave ScenarioA[1..n], else -1
    scenB,            \* n if the n queries so far gave ScenarioB[1..n], else -1
    transientRun,     \* number of Transient results the query history ends with
    status,           \* status returned by get_live_info in this iteration
    last_status,      \* last_status
    retry_count,      \* retry_count (consecutive-error counter)
    attempt,          \* loop variable of the launch retry loop
    attemptLog,       \* launches and sleeps of handle_live_start in this iteration
    launchFailed,     \* some run_streamlink call has failed so far
    exhausted,        \* the launch retries were exhausted in the current run of Live polls
    lastSleep,        \* duration of the latest time.sleep of the poll loop
    cur,              \* current_recording_process (0 is None)
    nproc,            \* number of capture processes spawned so far
    proc,             \* state of each capture process
    returncode,       \* exit code of each capture process (-1: not exited)
    watcher,          \* state of each monitor_recording thread
    waitingOn,        \* process handle_live_end is blocked on (0: none)
    recording_info,   \* recording_info (hosting.py)
    shutdown_flag,    \* shutdown_flag
    sigpc,            \* position of the signal handler
    sigTarget,        \* process the signal handler sent terminate to
    exitCode,         \* exit code of the program (-1 while it runs)
    stoppc,           \* position of the thread that runs stop_recording
    stopTarget,       \* process stop_recording sent terminate to
    stopLog,          \* what the latest call of stop_recording did
    nonZeroExit,      \* a process exited non-zero in the current run of Live polls
    stoppedLive,      \* stop_recording ended a process in the current run of Live polls
    async_mode,       \* how the web server runs its request handlers
    startLog,         \* what the latest call of api_start did
    orphans,          \* poll loops left running on a replaced recorder
    snapshot,         \* the dict the latest call of get_status returned
    statuspc          \* position of the request handler that runs get_status

vars == <<variant, pc, deps, npolls, prevPoll, curPoll, scenA, scenB,
          transientRun, status, last_status, retry_count, attempt,
          attemptLog, launchFailed, exhausted, lastSleep, cur, nproc, proc, returncode,
          watcher, waitingOn, recording_info, shutdown_flag, sigpc, sigTarget,
          exitCode, stoppc, stopTarget, stopLog,
          nonZeroExit, stoppedLive, async_mode, startLog, orphans, snapshot,
          statuspc>>

loopVars == <<status, last_status, retry_count, attempt, attemptLog,
              launchFailed, exhausted, lastSleep, waitingOn, npolls, prevPoll, curPoll,
              scenA, scenB, transientRun>>
histVars == <<npolls, prevPoll, curPoll, scenA, scenB, transientRun>>
procVars == <<cur, nproc, proc, returncode, watcher, recording_info>>
sigVars == <<shutdown_flag, sigpc, sigTarget, exitCode>>
stopVars == <<stoppc, stopTarget, stopLog, stoppedLive>>
apiVars == <<async_mode, startLog, orphans, snapshot, statuspc>>

EmptyInfo == [status |-> "idle", start_time |-> FALSE, end_time |-> FALSE,
              error |-> "none"]

\* get_live_info: every failure of the query is caught and returned as
\* (None, None, None), exactly like a channel without content.
GetLiveInfo(r) ==
    CASE r = "Live" -> "OPEN"
      [] r = "Offline" -> "CLOSE"
      [] r = "Unknown" -> "None"
      [] r = "Transient" -> "None"

\* Flask-SocketIO picks the server by what is installed: eventlet or gevent
\* run every request handler as a greenlet on the main thread, the
\* threading mode runs it on a worker thread.
AsyncModes == {"green", "threading"}

\* No call of get_status has returned yet.
NoSnapshot ==
    [taken |-> FALSE, live_status |-> "None", recording_status |-> "idle",
     start_time |-> FALSE, end_time |-> FALSE, is_recording |-> FALSE,
     process_pid |-> 0, last_status |-> "None", retry_count |-> 0,
     shutdown_flag |-> FALSE]

Init ==
    /\ variant \in Variants
    /\ async_mode \in IF variant = "web" THEN AsyncModes ELSE {"none"}
    /\ startLog = "none"
    /\ orphans = 0
    /\ snapshot = NoSnapshot
    /\ statuspc = "idle"
    /\ pc = IF variant = "web" THEN "init" ELSE "start"
    /\ deps = "unchecked"
    /\ npolls = 0
    /\ prevPoll = "none"
    /\ curPoll = "none"
    /\ scenA = 0
    /\ scenB = 0
    /\ transientRun = 0
    /\ status = "None"
    /\ last_status = "None"
    /\ retry_count = 0
    /\ attempt = 0
    /\ attemptLog = <<>>
    /\ launchFailed = FALSE
    /\ exhausted = FALSE
    /\ lastSleep = 0
    /\ cur = 0
    /\ nproc = 0
    /\ proc = [p \in Procs |-> "unborn"]
    /\ returncode = [p \in Procs |-> -1]
    /\ watcher = [p \in Procs |-> "none"]
    /\ waitingOn = 0
    /\ recording_info = EmptyInfo
    /\ shutdown_flag = FALSE
    /\ sigpc = "idle"
    /\ sigTarget = 0
    /\ exitCode = -1
    /\ stoppc = "idle"
    /\ stopTarget = 0
    /\ stopLog = <<>>
    /\ nonZeroExit = FALSE
    /\ stoppedLive = FALSE

\* The program has not exited.
Running == exitCode = -1

\* The thread of the poll loop can take a step: in the console programs the
\* signal handler runs on that same thread and suspends it until it ends.
LoopRuns == Running /\ (variant = "web" \/ sigpc \in {"idle", "raised"})

\* Positions of the poll loop inside the try block of check_stream.
LoopPcs == {"top", "live_start", "check", "check_poll", "check_clear",
            "sleep_live", "end", "end_wait", "end_block", "sleep_off"}

\* ---- console entry point: start() / main() ------------------------------

\* check_dependencies returned True: start() enters check_stream, which
\* begins with retry_count = 0.
CheckDependenciesOk ==
    /\ LoopRuns /\ pc = "start"
    /\ deps' = "ok"
    /\ retry_count' = 0
    /\ pc' = "top"
    /\ UNCHANGED <<variant, histVars, status, last_status, attempt, attemptLog,
                   launchFailed, exhausted, lastSleep, waitingOn>>
    /\ UNCHANGED procVars /\ UNCHANGED sigVars
    /\ UNCHANGED <<stopVars, nonZeroExit>>
    /\ UNCHANGED apiVars

\* Variant of CheckDependenciesFail that logs the failure and goes on to
\* the poll loop instead of exiting.
CheckDependenciesFailContinue ==
    /\ LoopRuns /\ pc = "start"
    /\ deps' = "fail"
    /\ retry_count' = 0
    /\ pc' = "top"
    /\ UNCHANGED <<variant, histVars, status, last_status, attempt, attemptLog,
                   launchFailed, exhausted, lastSleep, waitingOn>>
    /\ UNCHANGED procVars /\ UNCHANGED sigVars
    /\ UNCHANGED <<stopVars, nonZeroExit>>
    /\ UNCHANGED apiVars

\* check_dependencies returned False: sys.exit(1).
CheckDependenciesFail ==
    /\ LoopRuns /\ pc = "start"
    /\ deps' = "fail"
    /\ pc' = "exited"
    /\ exitCode' = 1
    /\ UNCHANGED <<variant, shutdown_flag, sigpc, sigTarget>>
    /\ UNCHANGED loopVars /\ UNCHANGED procVars
    /\ UNCHANGED <<stopVars, nonZeroExit>>
    /\ UNCHANGED apiVars

\* api_start (web): the poll loop is started in a thread of its own.
\* ChzzkRecorder() registers the signal handlers, which Python allows on
\* the main thread only.
ApiStart ==
    /\ Running /\ variant = "web" /\ pc = "init"
    /\ async_mode = "green"
    /\ startLog' = "started"
    /\ retry_count' = 0
    /\ pc' = "top"
    /\ UNCHANGED <<variant, deps, histVars, status, last_status, attempt,
                   attemptLog, launchFailed, exhausted, lastSleep, waitingOn>>
    /\ UNCHANGED procVars /\ UNCHANGED sigVars
    /\ UNCHANGED <<stopVars, nonZeroExit>>
    /\ UNCHANGED <<async_mode, orphans, snapshot, statuspc>>

\* api_start on a worker thread (threading mode): ChzzkRecorder() calls
\* signal.signal outside the main thread, which raises ValueError; api_start
\* catches it and answers with the failure message. recorder and
\* monitor_thread keep their values.
ApiStartRaises ==
    /\ Running /\ variant = "web"
    /\ async_mode = "threading"
    /\ startLog' = "raised"
    /\ UNCHANGED <<variant, pc, deps, nonZeroExit, async_mode, orphans,
                   snapshot, statuspc>>
    /\ UNCHANGED loopVars /\ UNCHANGED procVars /\ UNCHANGED sigVars
    /\ UNCHANGED stopVars

\* check_stream returned to start(), which returns to main(): the
\* interpreter exits with code 0.
StartReturns ==
    /\ LoopRuns /\ variant # "web" /\ pc = "returned"
    /\ pc' = "exited"
    /\ exitCode' = 0
    /\ UNCHANGED <<variant, deps, shutdown_flag, sigpc, sigTarget>>
    /\ UNCHANGED loopVars /\ UNCHANGED procVars
    /\ UNCHANGED <<stopVars, nonZeroExit>>
    /\ UNCHANGED apiVars

\* ---- poll loop: check_stream --------------------------------------------

\* The condition of the while loop of check_stream.
LoopCondition == ~shutdown_flag

\* "while not shutdown_flag" is false: the loop ends.
LoopExit ==
    /\ LoopRuns /\ pc = "top" /\ ~LoopCondition
    /\ pc' = "returned"
    /\ UNCHANGED <<variant, deps>>
    /\ UNCHANGED loopVars /\ UNCHANGED procVars /\ UNCHANGED sigVars
    /\ UNCHANGED <<stopVars, nonZeroExit>>
    /\ UNCHANGED apiVars

\* Branch taken after get_live_info returned status st.
AfterPoll(st) ==
    IF st = "OPEN"
    THEN IF last_status # "OPEN" /\ RetryCountMax > 0 THEN "live_start"
         ELSE "check"
    ELSE IF last_status = "OPEN" THEN "end" ELSE "sleep_off"

\* The poll sequences of the two scenarios of the specification.
ScenarioA == <<"Offline", "Offline", "Live", "Live", "Offline">>
ScenarioB == <<"Live", "Transient", "Transient", "Transient", "Live">>

\* Progress of the query history along scenario scn after result r: the
\* history is still a prefix of scn (its length), or it is not (-1).
Track(scn, n, r) ==
    IF n >= 0 /\ n < Len(scn) /\ scn[n + 1] = r THEN n + 1 ELSE -1

\* One status query and the branch on its result.
Poll ==
    /\ LoopRuns /\ pc = "top" /\ LoopCondition
    /\ npolls < MaxPollsLong
    /\ \E r \in PollResults :
         /\ npolls' = npolls + 1
         /\ prevPoll' = curPoll
         /\ curPoll' = r
         /\ scenA' = Track(ScenarioA, scenA, r)
         /\ scenB' = Track(ScenarioB, scenB, r)
         /\ transientRun' = IF r = "Transient" THEN transientRun + 1 ELSE 0
         /\ exhausted' = (exhausted /\ r = "Live")
         /\ nonZeroExit' = (nonZeroExit /\ r = "Live")
         /\ stoppedLive' = (stoppedLive /\ r = "Live")
         /\ status' = GetLiveInfo(r)
         /\ pc' = AfterPoll(GetLiveInfo(r))
    /\ attempt' = 0
    /\ attemptLog' = <<>>
    /\ UNCHANGED <<variant, deps, last_status, retry_count, launchFailed,
                   lastSleep, waitingOn>>
    /\ UNCHANGED procVars /\ UNCHANGED sigVars
    /\ UNCHANGED <<stoppc, stopTarget, stopLog>>
    /\ UNCHANGED apiVars

\* "except Exception" of check_stream: count, stop at the ceiling, else
\* sleep 30 and go on. last_status is not updated.
RaiseInLoop ==
    /\ retry_count' = retry_count + 1
    /\ IF retry_count + 1 >= MaxConsecutiveErrors
       THEN pc' = "returned" /\ lastSleep' = lastSleep
       ELSE pc' = "top" /\ lastSleep' = ErrorDelay

\* Entries of attemptLog: a run_streamlink call and its outcome, or a sleep.
LaunchOk == [ev |-> "launch_ok", t |-> 0]
LaunchFailed == [ev |-> "launch_failed", t |-> 0]
Slept(t) == [ev |-> "sleep", t |-> t]

\* Variant of ShouldSleepAfterFailure that also sleeps after the last
\* attempt (an off-by-one in the comparison).
ShouldSleepAlways(a) == a < RetryCountMax

\* The retry loop sleeps after a failed attempt unless it was the last one.
ShouldSleepAfterFailure(a) == a < RetryCountMax - 1

\* recording_info as run_streamlink writes it before spawning.
NewInfo ==
    IF variant = "script" THEN recording_info
    ELSE [status |-> "recording", start_time |-> TRUE, end_time |-> FALSE,
          error |-> "none"]

\* Variant of PcAfterLaunchOk without the break: the retry loop goes on to
\* its next attempt after a successful launch.
PcAfterLaunchOkNoBreak ==
    IF attempt + 1 < RetryCountMax THEN "live_start" ELSE "check"

\* Where the loop goes after a successful launch: "break" leaves the retry
\* loop, handle_live_start returns and check_recording_status follows.
PcAfterLaunchOk == "check"

\* One attempt of the retry loop, run_streamlink returning a process: the
\* handle is stored, the exit watcher is started, the loop breaks.
RunStreamlinkOk ==
    /\ LoopRuns /\ pc = "live_start"
    /\ nproc < MaxProc
    /\ nproc' = nproc + 1
    /\ proc' = [proc EXCEPT ![nproc + 1] = "running"]
    /\ watcher' = [watcher EXCEPT ![nproc + 1] = "waiting"]
    /\ cur' = nproc + 1
    /\ recording_info' = NewInfo
    /\ attemptLog' = Append(attemptLog, LaunchOk)
    /\ pc' = PcAfterLaunchOk
    /\ UNCHANGED <<variant, deps, histVars, status, last_status, retry_count,
                   attempt, launchFailed, exhausted, lastSleep, waitingOn, returncode>>
    /\ UNCHANGED sigVars
    /\ UNCHANGED <<stopVars, nonZeroExit>>
    /\ UNCHANGED apiVars

\* Variant of HandleAfterLaunchFailure in which the except clause of
\* run_streamlink returns None without resetting the handle.
HandleAfterLaunchFailureKept == cur

\* The handle after run_streamlink caught an exception: None.
HandleAfterLaunchFailure == 0

\* One attempt of the retry loop, run_streamlink failing: the exception is
\* caught inside run_streamlink, the handle is set to None, and the loop
\* sleeps before the next attempt if there is one.
RunStreamlinkFail ==
    /\ LoopRuns /\ pc = "live_start"
    /\ cur' = HandleAfterLaunchFailure
    /\ recording_info' = NewInfo
    /\ launchFailed' = TRUE
    /\ attempt' = attempt + 1
    /\ IF ShouldSleepAfterFailure(attempt)
       THEN /\ attemptLog' = attemptLog \o <<LaunchFailed, Slept(RetryDelay)>>
            /\ lastSleep' = RetryDelay
       ELSE /\ attemptLog' = Append(attemptLog, LaunchFailed)
            /\ lastSleep' = lastSleep
    /\ pc' = IF attempt + 1 < RetryCountMax THEN "live_start" ELSE "check"
    /\ exhausted' = (attempt + 1 >= RetryCountMax)
    /\ UNCHANGED <<variant, deps, histVars, status, last_status, retry_count,
                   waitingOn, nproc, proc, returncode, watcher>>
    /\ UNCHANGED sigVars
    /\ UNCHANGED <<stopVars, nonZeroExit>>
    /\ UNCHANGED apiVars

\* check_recording_status, first read of the handle ("if handle:").
\* In callisto.py the handle is a local of check_stream that is never
\* bound (the function assigns it without declaring it global), so the
\* read raises UnboundLocalError.
CheckRecordingStatus ==
    /\ LoopRuns /\ pc = "check"
    /\ IF variant = "script"
       THEN RaiseInLoop
       ELSE /\ pc' = IF cur # 0 THEN "check_poll" ELSE "sleep_live"
            /\ UNCHANGED <<retry_count, lastSleep>>
    /\ UNCHANGED <<variant, deps, histVars, status, last_status, attempt,
                   attemptLog, launchFailed, exhausted, waitingOn>>
    /\ UNCHANGED procVars /\ UNCHANGED sigVars
    /\ UNCHANGED <<stopVars, nonZeroExit>>
    /\ UNCHANGED apiVars

\* check_recording_status, second read: handle.poll(). A handle cleared in
\* between raises AttributeError.
CheckRecordingPoll ==
    /\ LoopRuns /\ pc = "check_poll"
    /\ IF cur = 0
       THEN RaiseInLoop
       ELSE /\ pc' = IF proc[cur] = "exited" THEN "check_clear"
                     ELSE "sleep_live"
            /\ UNCHANGED <<retry_count, lastSleep>>
    /\ UNCHANGED <<variant, deps, histVars, status, last_status, attempt,
                   attemptLog, launchFailed, exhausted, waitingOn>>
    /\ UNCHANGED procVars /\ UNCHANGED sigVars
    /\ UNCHANGED <<stopVars, nonZeroExit>>
    /\ UNCHANGED apiVars

\* Variant of HandleAfterProbe that leaves the handle to the exit watcher.
HandleAfterProbeKept == cur

\* The handle after check_recording_status found the process dead: None.
HandleAfterProbe == 0

\* check_recording_status found the process dead: warn and clear the handle.
CheckRecordingClear ==
    /\ LoopRuns /\ pc = "check_clear"
    /\ cur' = HandleAfterProbe
    /\ pc' = "sleep_live"
    /\ UNCHANGED <<variant, deps, nproc, proc, returncode, watcher,
                   recording_info>>
    /\ UNCHANGED loopVars /\ UNCHANGED sigVars
    /\ UNCHANGED <<stopVars, nonZeroExit>>
    /\ UNCHANGED apiVars

\* End of a Live iteration: sleep 10, then last_status = status and
\* retry_count = 0.
SleepLive ==
    /\ LoopRuns /\ pc = "sleep_live"
    /\ lastSleep' = LiveInterval
    /\ last_status' = status
    /\ retry_count' = 0
    /\ pc' = "top"
    /\ UNCHANGED <<variant, deps, histVars, status, attempt, attemptLog,
                   launchFailed, exhausted, waitingOn>>
    /\ UNCHANGED procVars /\ UNCHANGED sigVars
    /\ UNCHANGED <<stopVars, nonZeroExit>>
    /\ UNCHANGED apiVars

\* handle_live_end, first read of the handle ("if handle:"); in callisto.py
\* the same unbound local is read.
HandleLiveEnd ==
    /\ LoopRuns /\ pc = "end"
    /\ IF variant = "script"
       THEN RaiseInLoop
       ELSE /\ pc' = IF cur # 0 THEN "end_wait" ELSE "sleep_off"
            /\ UNCHANGED <<retry_count, lastSleep>>
    /\ UNCHANGED <<variant, deps, histVars, status, last_status, attempt,
                   attemptLog, launchFailed, exhausted, waitingOn>>
    /\ UNCHANGED procVars /\ UNCHANGED sigVars
    /\ UNCHANGED <<stopVars, nonZeroExit>>
    /\ UNCHANGED apiVars

\* handle_live_end, second read: handle.wait() is called on the handle read
\* now; a handle cleared in between raises AttributeError.
HandleLiveEndWait ==
    /\ LoopRuns /\ pc = "end_wait"
    /\ IF cur = 0
       THEN RaiseInLoop /\ waitingOn' = waitingOn
       ELSE /\ waitingOn' = cur
            /\ pc' = "end_block"
            /\ UNCHANGED <<retry_count, lastSleep>>
    /\ UNCHANGED <<variant, deps, histVars, status, last_status, attempt,
                   attemptLog, launchFailed, exhausted>>
    /\ UNCHANGED procVars /\ UNCHANGED sigVars
    /\ UNCHANGED <<stopVars, nonZeroExit>>
    /\ UNCHANGED apiVars

\* Variant of WaitOver in which wait() returns only for a process that
\* exited with code 0.
WaitOverOnCleanExit(p) == proc[p] = "exited" /\ returncode[p] = 0

\* handle.wait() without a timeout returns as soon as process p has exited,
\* whatever its exit code.
WaitOver(p) == proc[p] = "exited"

\* wait() returns once the process has exited; the handle is cleared.
HandleLiveEndDone ==
    /\ LoopRuns /\ pc = "end_block"
    /\ WaitOver(waitingOn)
    /\ cur' = 0
    /\ waitingOn' = 0
    /\ pc' = "sleep_off"
    /\ UNCHANGED <<variant, deps, histVars, status, last_status, retry_count,
                   attempt, attemptLog, launchFailed, exhausted, lastSleep, nproc, proc,
                   returncode, watcher, recording_info>>
    /\ UNCHANGED sigVars
    /\ UNCHANGED <<stopVars, nonZeroExit>>
    /\ UNCHANGED apiVars

\* End of a non-Live iteration: sleep check_interval, then
\* last_status = status and retry_count = 0.
SleepOffline ==
    /\ LoopRuns /\ pc = "sleep_off"
    /\ lastSleep' = CheckInterval
    /\ last_status' = status
    /\ retry_count' = 0
    /\ pc' = "top"
    /\ UNCHANGED <<variant, deps, histVars, status, attempt, attemptLog,
                   launchFailed, exhausted, waitingOn>>
    /\ UNCHANGED procVars /\ UNCHANGED sigVars
    /\ UNCHANGED <<stopVars, nonZeroExit>>
    /\ UNCHANGED apiVars

\* ---- capture processes and exit watchers --------------------------------

\* A capture process exits, with exit code rc.
ProcExit ==
    /\ Running
    /\ \E p \in Procs, rc \in {0, 1} :
         /\ proc[p] = "running"
         /\ proc' = [proc EXCEPT ![p] = "exited"]
         /\ returncode' = [returncode EXCEPT ![p] = rc]
         /\ nonZeroExit' = (nonZeroExit \/ (rc # 0 /\ curPoll = "Live"))
    /\ UNCHANGED <<variant, pc, deps, cur, nproc, watcher, recording_info>>
    /\ UNCHANGED loopVars /\ UNCHANGED sigVars
    /\ UNCHANGED stopVars
    /\ UNCHANGED apiVars

\* Variant of InfoAfterExit that takes every exit for a completed recording
\* (the return code is not looked at).
InfoAfterExitIgnoresCode(rc) ==
    IF variant = "script" THEN recording_info
    ELSE [recording_info EXCEPT !.status = "completed", !.end_time = TRUE]

\* recording_info after monitor_recording saw the process exit with rc:
\* the status (and end_time or error) is written into the current dict.
InfoAfterExit(rc) ==
    IF variant = "script" THEN recording_info
    ELSE IF rc = 0
         THEN [recording_info EXCEPT !.status = "completed", !.end_time = TRUE]
         ELSE [recording_info EXCEPT !.status = "failed", !.error = "stderr"]

\* monitor_recording: communicate() returned, the outcome is logged and
\* (hosting.py) written to recording_info.
WatcherRecord ==
    /\ Running
    /\ \E p \in Procs :
         /\ watcher[p] = "waiting" /\ proc[p] = "exited"
         /\ watcher' = [watcher EXCEPT ![p] = "recorded"]
         /\ recording_info' = InfoAfterExit(returncode[p])
    /\ UNCHANGED <<variant, pc, deps, cur, nproc, proc, returncode>>
    /\ UNCHANGED loopVars /\ UNCHANGED sigVars
    /\ UNCHANGED <<stopVars, nonZeroExit>>
    /\ UNCHANGED apiVars

\* monitor_recording, finally clause: the handle is set to None.
WatcherClear ==
    /\ Running
    /\ \E p \in Procs :
         /\ watcher[p] = "recorded"
         /\ watcher' = [watcher EXCEPT ![p] = "done"]
    /\ cur' = 0
    /\ UNCHANGED <<variant, pc, deps, nproc, proc, returncode, recording_info>>
    /\ UNCHANGED loopVars /\ UNCHANGED sigVars
    /\ UNCHANGED <<stopVars, nonZeroExit>>
    /\ UNCHANGED apiVars

\* ---- termination signal: _signal_handler / signal_handler ---------------

\* Positions of the handler from which a further signal starts the handler
\* again: a Python signal handler is not masked while it runs, so a signal
\* that arrives during wait(timeout=10) runs a nested activation.
SignalEntryPcs == {"idle", "wait", "wait_nested", "raised"}

\* The handler is in wait(timeout=10), in its first or a nested activation.
SignalWaitPcs == {"wait", "wait_nested"}

\* The handler sets shutdown_flag; without a current process it goes
\* straight to sys.exit(0).
SignalNoProcess ==
    /\ Running /\ sigpc \in SignalEntryPcs /\ cur = 0
    /\ shutdown_flag' = TRUE
    /\ sigpc' = "done"
    /\ exitCode' = 0
    /\ UNCHANGED <<variant, pc, deps, sigTarget>>
    /\ UNCHANGED loopVars /\ UNCHANGED procVars
    /\ UNCHANGED <<stopVars, nonZeroExit>>
    /\ UNCHANGED apiVars

\* The handler sets shutdown_flag, sends terminate() to the current process
\* and starts wait(timeout=10). There is no test of shutdown_flag on entry:
\* a signal that arrives during the wait does the same again.
SignalTerminate ==
    /\ Running /\ sigpc \in SignalEntryPcs /\ cur # 0
    /\ shutdown_flag' = TRUE
    /\ sigpc' = IF sigpc \in SignalWaitPcs THEN "wait_nested" ELSE "wait"
    /\ sigTarget' = cur
    /\ UNCHANGED <<variant, pc, deps, exitCode>>
    /\ UNCHANGED loopVars /\ UNCHANGED procVars
    /\ UNCHANGED <<stopVars, nonZeroExit>>
    /\ UNCHANGED apiVars

\* wait(timeout=10) returned because the process has exited: sys.exit(0).
\* SystemExit raised by a nested activation passes through the outer one.
SignalWaitReturns ==
    /\ Running /\ sigpc \in SignalWaitPcs
    /\ proc[sigTarget] = "exited"
    /\ sigpc' = "done"
    /\ exitCode' = 0
    /\ UNCHANGED <<variant, pc, deps, shutdown_flag, sigTarget>>
    /\ UNCHANGED loopVars /\ UNCHANGED procVars
    /\ UNCHANGED <<stopVars, nonZeroExit>>
    /\ UNCHANGED apiVars

\* wait(timeout=10) timed out: the handle is read again and kill() is sent
\* to it, then sys.exit(0).
SignalTimeoutKill ==
    /\ Running /\ sigpc \in SignalWaitPcs
    /\ proc[sigTarget] = "running"
    /\ cur # 0
    /\ IF proc[cur] = "running"
       THEN /\ proc' = [proc EXCEPT ![cur] = "exited"]
            /\ returncode' = [returncode EXCEPT ![cur] = 1]
       ELSE UNCHANGED <<proc, returncode>>
    /\ sigpc' = "done"
    /\ exitCode' = 0
    /\ UNCHANGED <<variant, pc, deps, shutdown_flag, sigTarget, cur, nproc,
                   watcher, recording_info>>
    /\ UNCHANGED loopVars
    /\ UNCHANGED <<stopVars, nonZeroExit>>
    /\ UNCHANGED apiVars

\* wait(timeout=10) timed out and the handle has been cleared meanwhile:
\* kill() raises AttributeError inside the except clause, so the exception
\* leaves the handler and sys.exit(0) is not reached. On the console it is
\* raised in the interrupted poll loop and caught by its except clause
\* (by that of start() once the loop has ended, which exits with 1); in the
\* web program it ends the server's main thread. Raised by a nested
\* activation it arrives in the outer activation's wait(), where
\* "except Exception" logs it and sys.exit(0) follows.
SignalKillRaises ==
    /\ Running /\ sigpc \in SignalWaitPcs
    /\ proc[sigTarget] = "running"
    /\ cur = 0
    /\ IF sigpc = "wait_nested"
       THEN /\ sigpc' = "done"
            /\ exitCode' = 0
            /\ UNCHANGED <<pc, retry_count, lastSleep>>
       ELSE IF variant # "web" /\ pc \in LoopPcs
            THEN /\ RaiseInLoop
                 /\ sigpc' = "raised"
                 /\ exitCode' = exitCode
            ELSE /\ sigpc' = "done"
                 /\ exitCode' = 1
                 /\ UNCHANGED <<pc, retry_count, lastSleep>>
    /\ waitingOn' = 0
    /\ UNCHANGED <<variant, deps, histVars, status, last_status, attempt,
                   attemptLog, launchFailed, exhausted, shutdown_flag,
                   sigTarget>>
    /\ UNCHANGED procVars
    /\ UNCHANGED <<stopVars, nonZeroExit>>
    /\ UNCHANGED apiVars

\* ---- stop_recording, called by api_stop (web program) -------------------

\* Variant of StopInfoWithoutHandle in which the finally clause is attached
\* to a try block around the test of the handle, so that it always runs.
StopInfoAlwaysStopped ==
    [recording_info EXCEPT !.status = "stopped", !.end_time = TRUE]

\* What a call of stop_recording that finds no handle leaves in
\* recording_info: the whole body is under "if self.current_recording_process".
StopInfoWithoutHandle == recording_info

\* stop_recording, finally clause: status 'stopped' and the end time.
StopInfoStopped ==
    [recording_info EXCEPT !.status = "stopped", !.end_time = TRUE]

\* api_stop calls recorder.stop_recording(), which tests the handle.
StopCall ==
    /\ Running /\ variant = "web"
    /\ stoppc = "idle"
    /\ IF cur = 0
       THEN /\ stoppc' = "idle"
            /\ stopLog' = <<"noop">>
            /\ recording_info' = StopInfoWithoutHandle
       ELSE /\ stoppc' = "terminate"
            /\ stopLog' = <<>>
            /\ UNCHANGED recording_info
    /\ UNCHANGED <<variant, pc, deps, cur, nproc, proc, returncode, watcher,
                   stopTarget, nonZeroExit, stoppedLive>>
    /\ UNCHANGED loopVars /\ UNCHANGED sigVars
    /\ UNCHANGED apiVars

\* stop_recording reads the handle again for terminate() and starts
\* wait(timeout=10). If the handle has been cleared since the test,
\* AttributeError is caught by "except Exception" and logged, and the
\* finally clause runs.
StopTerminate ==
    /\ Running /\ stoppc = "terminate"
    /\ IF cur = 0
       THEN /\ stoppc' = "idle"
            /\ stopLog' = Append(stopLog, "logged")
            /\ recording_info' = StopInfoStopped
            /\ UNCHANGED stopTarget
       ELSE /\ stoppc' = "wait"
            /\ stopLog' = Append(stopLog, "terminate")
            /\ stopTarget' = cur
            /\ UNCHANGED recording_info
    /\ UNCHANGED <<variant, pc, deps, cur, nproc, proc, returncode, watcher,
                   nonZeroExit, stoppedLive>>
    /\ UNCHANGED loopVars /\ UNCHANGED sigVars
    /\ UNCHANGED apiVars

\* wait(timeout=10) returned because the process has exited; finally clause.
StopWaitReturns ==
    /\ Running /\ stoppc = "wait"
    /\ proc[stopTarget] = "exited"
    /\ stoppc' = "idle"
    /\ cur' = 0
    /\ recording_info' = StopInfoStopped
    /\ stoppedLive' = (curPoll = "Live")
    /\ UNCHANGED <<variant, pc, deps, nproc, proc, returncode, watcher,
                   stopTarget, stopLog, nonZeroExit>>
    /\ UNCHANGED loopVars /\ UNCHANGED sigVars
    /\ UNCHANGED apiVars

\* wait(timeout=10) timed out: the handle is read again and kill() is sent
\* to it; finally clause.
StopTimeoutKill ==
    /\ Running /\ stoppc = "wait"
    /\ proc[stopTarget] = "running"
    /\ cur # 0
    /\ IF proc[cur] = "running"
       THEN /\ proc' = [proc EXCEPT ![cur] = "exited"]
            /\ returncode' = [returncode EXCEPT ![cur] = 1]
       ELSE UNCHANGED <<proc, returncode>>
    /\ stoppc' = "idle"
    /\ stopLog' = Append(stopLog, "kill")
    /\ cur' = 0
    /\ recording_info' = StopInfoStopped
    /\ stoppedLive' = (curPoll = "Live")
    /\ UNCHANGED <<variant, pc, deps, nproc, watcher, stopTarget, nonZeroExit>>
    /\ UNCHANGED loopVars /\ UNCHANGED sigVars
    /\ UNCHANGED apiVars

\* wait(timeout=10) timed out and the handle has been cleared meanwhile:
\* kill() raises AttributeError inside the except clause; the finally
\* clause runs and the exception leaves stop_recording (api_stop catches
\* it and answers with the failure message).
StopKillRaises ==
    /\ Running /\ stoppc = "wait"
    /\ proc[stopTarget] = "running"
    /\ cur = 0
    /\ stoppc' = "idle"
    /\ stopLog' = Append(stopLog, "raised")
    /\ cur' = 0
    /\ recording_info' = StopInfoStopped
    /\ UNCHANGED <<variant, pc, deps, nproc, proc, returncode, watcher,
                   stopTarget, nonZeroExit, stoppedLive>>
    /\ UNCHANGED loopVars /\ UNCHANGED sigVars
    /\ UNCHANGED apiVars

\* ---- api_start and get_status (web program) ----------------------------

\* Variant of MonitorAlive for an api_start without the test of the thread.
MonitorAliveNever == FALSE

\* "monitor_thread and monitor_thread.is_alive()": the thread of the latest
\* poll loop exists and has not returned.
MonitorAlive == pc \in LoopPcs

\* The watchers after the recorder was replaced: those still at work belong
\* to the old object and no longer touch the state of the current recorder.
DetachedWatchers ==
    [p \in Procs |-> IF watcher[p] \in {"waiting", "recorded"}
                     THEN "detached" ELSE watcher[p]]

\* Positions of the handler of /api/status between two calls of get_status:
\* the latest call returned, or it raised.
StatusRestPcs == {"idle", "raised"}

\* api_start, any call: rejected while the poll loop is alive, otherwise a
\* new ChzzkRecorder replaces the old one and its check_stream is started in
\* a new thread. The handler is one step: it runs as a greenlet on the main
\* thread and nothing between the test and the two assignments yields to
\* another greenlet (on a worker thread it does not get past the
\* constructor, see ApiStartRaises). For the same reason it does not run
\* while a call of get_status is in progress: that call is a greenlet on
\* the same thread and does not yield either.
ApiStartCall ==
    /\ Running /\ variant = "web"
    /\ async_mode = "green"
    /\ statuspc \in StatusRestPcs
    /\ IF MonitorAlive
       THEN /\ startLog' = "rejected"
            /\ UNCHANGED <<pc, orphans, status, last_status, retry_count,
                           attempt, attemptLog, waitingOn, cur, watcher,
                           recording_info, shutdown_flag>>
       ELSE /\ startLog' = "started"
            /\ orphans' = IF pc \in LoopPcs THEN orphans + 1 ELSE orphans
            /\ pc' = "top"
            /\ status' = "None"
            /\ last_status' = "None"
            /\ retry_count' = 0
            /\ attempt' = 0
            /\ attemptLog' = <<>>
            /\ waitingOn' = 0
            /\ cur' = 0
            /\ watcher' = DetachedWatchers
            /\ recording_info' = EmptyInfo
            /\ shutdown_flag' = FALSE
    /\ UNCHANGED <<variant, deps, histVars, launchFailed, exhausted,
                   lastSleep, nproc, proc, returncode, sigpc, sigTarget,
                   exitCode, nonZeroExit, async_mode, snapshot, statuspc>>
    /\ UNCHANGED stopVars

\* Variant of LastStatusAfterQuery in which get_status keeps the result of
\* its query in self.last_status.
LastStatusAfterQueryStored(st) == st

\* last_status after get_status received st from its own get_live_info call:
\* the result goes into the returned dict only.
LastStatusAfterQuery(st) == last_status

\* get_status, called by api_status, up to line 279: a status query of its
\* own, then the status and the times of recording_info and the test
\* "handle is not None" are read. Nothing is locked, so the poll loop and
\* the exit watchers (threads of their own) run between this step and the
\* next ones.
GetStatus ==
    /\ Running /\ variant = "web"
    /\ statuspc \in StatusRestPcs
    /\ \E r \in PollResults :
         /\ snapshot' = [NoSnapshot EXCEPT
                            !.live_status = GetLiveInfo(r),
                            !.recording_status = recording_info.status,
                            !.start_time = recording_info.start_time,
                            !.end_time = recording_info.end_time,
                            !.is_recording = (cur # 0)]
         /\ last_status' = LastStatusAfterQuery(GetLiveInfo(r))
    /\ statuspc' = "pid_test"
    /\ UNCHANGED <<variant, pc, deps, histVars, status, retry_count, attempt,
                   attemptLog, launchFailed, exhausted, lastSleep, waitingOn,
                   nonZeroExit, async_mode, startLog, orphans>>
    /\ UNCHANGED procVars /\ UNCHANGED sigVars /\ UNCHANGED stopVars

\* The dict get_status returns with process_pid = pid: last_status,
\* retry_count and shutdown_flag are read after the handle.
StatusReturned(pid) ==
    [snapshot EXCEPT !.taken = TRUE,
                     !.process_pid = pid,
                     !.last_status = last_status,
                     !.retry_count = retry_count,
                     !.shutdown_flag = shutdown_flag]

\* get_status, line 280, the condition of "handle.pid if handle else None":
\* without a handle process_pid is None and the dict is returned.
GetStatusPidTest ==
    /\ Running /\ statuspc = "pid_test"
    /\ IF cur = 0
       THEN /\ snapshot' = StatusReturned(0)
            /\ statuspc' = "idle"
       ELSE /\ statuspc' = "pid_read"
            /\ UNCHANGED snapshot
    /\ UNCHANGED <<variant, pc, deps, nonZeroExit, async_mode, startLog,
                   orphans>>
    /\ UNCHANGED loopVars /\ UNCHANGED procVars /\ UNCHANGED sigVars
    /\ UNCHANGED stopVars

\* get_status, line 280, the read of handle.pid: the handle is read again;
\* if it has been cleared since the condition, AttributeError leaves
\* get_status and api_status, which has no try block.
GetStatusPidRead ==
    /\ Running /\ statuspc = "pid_read"
    /\ IF cur = 0
       THEN /\ statuspc' = "raised"
            /\ UNCHANGED snapshot
       ELSE /\ snapshot' = StatusReturned(cur)
            /\ statuspc' = "idle"
    /\ UNCHANGED <<variant, pc, deps, nonZeroExit, async_mode, startLog,
                   orphans>>
    /\ UNCHANGED loopVars /\ UNCHANGED procVars /\ UNCHANGED sigVars
    /\ UNCHANGED stopVars

\* ---- specification ------------------------------------------------------

\* One iteration of check_stream, in runs of at most MaxPolls iterations.
PollShort == npolls < MaxPolls /\ Poll

Next ==
    \/ CheckDependenciesOk
    \/ CheckDependenciesFail
    \/ ApiStart
    \/ ApiStartRaises
    \/ StartReturns
    \/ LoopExit
    \/ PollShort
    \/ RunStreamlinkOk
    \/ RunStreamlinkFail
    \/ CheckRecordingStatus
    \/ CheckRecordingPoll
    \/ CheckRecordingClear
    \/ SleepLive
    \/ HandleLiveEnd
    \/ HandleLiveEndWait
    \/ HandleLiveEndDone
    \/ SleepOffline
    \/ ProcExit
    \/ WatcherRecord
    \/ WatcherClear
    \/ SignalNoProcess
    \/ SignalTerminate
    \/ SignalWaitReturns
    \/ SignalTimeoutKill
    \/ SignalKillRaises

Spec == Init /\ [][Next]_vars

\* The same programs in runs of up to MaxPollsLong iterations.
NextLong ==
    \/ CheckDependenciesOk
    \/ CheckDependenciesFail
    \/ ApiStart
    \/ ApiStartRaises
    \/ StartReturns
    \/ LoopExit
    \/ Poll
    \/ RunStreamlinkOk
    \/ RunStreamlinkFail
    \/ CheckRecordingStatus
    \/ CheckRecordingPoll
    \/ CheckRecordingClear
    \/ SleepLive
    \/ HandleLiveEnd
    \/ HandleLiveEndWait
    \/ HandleLiveEndDone
    \/ SleepOffline
    \/ ProcExit
    \/ WatcherRecord
    \/ WatcherClear
    \/ SignalNoProcess
    \/ SignalTerminate
    \/ SignalWaitReturns
    \/ SignalTimeoutKill
    \/ SignalKillRaises

SpecLong == Init /\ [][NextLong]_vars

\* One iteration of check_stream, in runs of at most MaxPollsFair iterations.
PollFair == npolls < MaxPollsFair /\ Poll

\* A step of the thread that runs check_stream.
LoopStep ==
    \/ LoopExit
    \/ PollFair
    \/ RunStreamlinkOk
    \/ RunStreamlinkFail
    \/ CheckRecordingStatus
    \/ CheckRecordingPoll
    \/ CheckRecordingClear
    \/ SleepLive
    \/ HandleLiveEnd
    \/ HandleLiveEndWait
    \/ HandleLiveEndDone
    \/ SleepOffline

NextFair ==
    \/ CheckDependenciesOk
    \/ CheckDependenciesFail
    \/ ApiStart
    \/ ApiStartRaises
    \/ StartReturns
    \/ LoopStep
    \/ ProcExit
    \/ WatcherRecord
    \/ WatcherClear
    \/ SignalNoProcess
    \/ SignalTerminate
    \/ SignalWaitReturns
    \/ SignalTimeoutKill
    \/ SignalKillRaises

\* The programs under the scheduling assumptions of a run: the thread of
\* the poll loop keeps being scheduled (every sleep and every status query
\* returns), and every capture process that runs eventually exits.
SpecFair ==
    Init /\ [][NextFair]_vars /\ WF_vars(LoopStep) /\ WF_vars(ProcExit)

\* The web program with the operations of its API: the recorder is created
\* by start_web_server, the poll loop runs in the thread api_start creates
\* and api_stop calls stop_recording from a request thread.
InitWeb == Init /\ variant = "web"

\* One iteration of check_stream, in runs of at most MaxPollsWeb iterations.
PollWeb == npolls < MaxPollsWeb /\ Poll

NextWeb ==
    \/ ApiStart
    \/ ApiStartRaises
    \/ LoopExit
    \/ PollWeb
    \/ RunStreamlinkOk
    \/ RunStreamlinkFail
    \/ CheckRecordingStatus
    \/ CheckRecordingPoll
    \/ CheckRecordingClear
    \/ SleepLive
    \/ HandleLiveEnd
    \/ HandleLiveEndWait
    \/ HandleLiveEndDone
    \/ SleepOffline
    \/ ProcExit
    \/ WatcherRecord
    \/ WatcherClear
    \/ SignalNoProcess
    \/ SignalTerminate
    \/ SignalWaitReturns
    \/ SignalTimeoutKill
    \/ SignalKillRaises
    \/ StopCall
    \/ StopTerminate
    \/ StopWaitReturns
    \/ StopTimeoutKill
    \/ StopKillRaises

SpecWeb == InitWeb /\ [][NextWeb]_vars

\* The web program with the requests that read the status.
NextApi ==
    \/ ApiStart
    \/ ApiStartRaises
    \/ GetStatus
    \/ GetStatusPidTest
    \/ GetStatusPidRead
    \/ PollWeb
    \/ RunStreamlinkOk
    \/ RunStreamlinkFail
    \/ CheckRecordingStatus
    \/ CheckRecordingPoll
    \/ CheckRecordingClear
    \/ SleepLive
    \/ HandleLiveEnd
    \/ HandleLiveEndWait
    \/ HandleLiveEndDone
    \/ SleepOffline
    \/ ProcExit
    \/ WatcherRecord
    \/ WatcherClear

SpecApi == InitWeb /\ [][NextApi]_vars

\* The web program with the requests that start the poll loop, any number
\* of times.
NextStart ==
    \/ ApiStartCall
    \/ ApiStartRaises
    \/ PollWeb
    \/ RunStreamlinkOk
    \/ RunStreamlinkFail
    \/ CheckRecordingStatus
    \/ CheckRecordingPoll
    \/ CheckRecordingClear
    \/ SleepLive
    \/ HandleLiveEnd
    \/ HandleLiveEndWait
    \/ HandleLiveEndDone
    \/ SleepOffline
    \/ ProcExit
    \/ WatcherRecord
    \/ WatcherClear

SpecStart == InitWeb /\ [][NextStart]_vars

TypeOK ==
    /\ variant \in Variants
    /\ retry_count \in 0..MaxConsecutiveErrors
    /\ cur \in 0..MaxProc
    /\ npolls \in 0..MaxPollsLong
    /\ exitCode \in {-1, 0, 1}

\* ---- properties ---------------------------------------------------------

\* handle_live_start has returned in the poll iteration in progress and
\* every launch attempt it made failed.
AllAttemptsFailed ==
    /\ pc \in {"check", "check_poll", "check_clear", "sleep_live"}
    /\ Len(attemptLog) > 0
    /\ \A i \in 1..Len(attemptLog) : attemptLog[i] # LaunchOk

\* Every capture process that has exited so far exited with code 0.
AllCleanExits == \A p \in Procs : proc[p] = "exited" => returncode[p] = 0

\* The poll loop is past the current iteration's work.
IterationOver == pc \in {"top", "returned", "exited"}

\* C1: the launcher is called only in an iteration whose poll returned Live
\* and whose preceding poll result was not Live (or did not exist).
C1_LaunchOnlyOnLiveEdge ==
    pc = "live_start" => (curPoll = "Live" /\ prevPoll # "Live")

\* C2: at most one capture process started by the recorder is running.
C2_AtMostOneProcessRunning ==
    Cardinality({p \in Procs : proc[p] = "running"}) <= 1

\* C3: after the polls Offline, Offline, Live, Live, Offline with a launcher
\* that always succeeds and a clean exit, once the wait of the last Offline
\* poll is over exactly one launch was made and the session is Completed.
C3_ScenarioA ==
    (/\ scenA = Len(ScenarioA)
     /\ ~launchFailed
     /\ AllCleanExits
     /\ pc \in {"sleep_off", "top", "returned", "exited"})
    => (/\ nproc = 1
        /\ variant # "script" => recording_info.status = "completed")

\* The launches and sleeps of a retry loop in which every attempt fails:
\* RetryCountMax failed launches separated by sleeps of RetryDelay.
ExpectedFailLog ==
    [i \in 1..(2 * RetryCountMax - 1) |->
        IF i % 2 = 1 THEN LaunchFailed ELSE Slept(RetryDelay)]

\* C4: when every launch attempt fails, handle_live_start makes exactly
\* RetryCountMax attempts with a sleep of 5 between consecutive attempts and
\* no sleep after the last one.
C4_RetryAttemptsAndDelays ==
    AllAttemptsFailed =>
        /\ attemptLog = ExpectedFailLog
        /\ attempt = RetryCountMax

C4_Witness ==
    /\ AllAttemptsFailed
    /\ attempt = RetryCountMax
    /\ attemptLog[Len(attemptLog)] = LaunchFailed

\* C5: when all launch attempts of a Live edge have failed the session's
\* status is failed; it is not left as recording without a process handle.
C5_FailedAfterRetriesExhausted ==
    (variant # "script" /\ AllAttemptsFailed)
    => (/\ recording_info.status = "failed"
        /\ ~(recording_info.status = "recording" /\ cur = 0))

\* C6: after the launch retries were exhausted, no further launch attempt
\* is made while the channel stays Live.
C6_NoRelaunchAfterExhaustion ==
    exhausted => pc # "live_start"

\* C7: once five consecutive status queries have failed the poll loop is
\* stopped: it does not come back to the top of the loop for another poll.
C7_FiveTransientFailuresStop ==
    transientRun >= MaxConsecutiveErrors => pc # "top"

\* C8: the console program exits with code 1 when the poll loop stopped
\* because the error counter reached 5, and with code 0 on a shutdown
\* requested by signal.
C8_ExitCodes ==
    variant # "web" =>
        /\ (pc = "exited" /\ retry_count >= MaxConsecutiveErrors)
               => exitCode = 1
        /\ sigpc = "done" => exitCode = 0

\* C9: when check_dependencies fails the program exits with code 1 and
\* neither a status query nor a launch attempt has been or will be made.
C9_ValidationFailureExits ==
    deps = "fail" =>
        /\ exitCode = 1
        /\ npolls = 0
        /\ nproc = 0 /\ ~launchFailed

C9_Witness ==
    deps = "fail" /\ pc = "exited" /\ exitCode = 1

\* C10: after the polls Live, Transient, Transient, Transient, Live the
\* consecutive-error counter is 0 and the loop has not been stopped by it.
C10_ScenarioB ==
    (scenB = Len(ScenarioB) /\ IterationOver)
    => (retry_count = 0 /\ (pc = "top" \/ shutdown_flag))

\* A terminal status of recording_info.
TerminalStatus == {"completed", "failed", "stopped"}

\* The poll loop is in handle_live_end.
InHandleLiveEnd == pc \in {"end", "end_wait", "end_block"}

\* C11: a poll that fails transiently while a session is recording does not
\* interrupt the recording: the iteration of that poll does not go into
\* handle_live_end, where the process would be waited on and the handle
\* cleared.
C11_TransientPollLeavesRecording ==
    curPoll = "Transient" => ~InHandleLiveEnd

\* C12: when handle_live_end has returned on the offline edge (the loop is
\* about to sleep and last_status is still 'OPEN'), the session that was
\* launched has a terminal status and the handle is cleared.
C12_EndSessionReturnsAfterTerminal ==
    (/\ variant # "script"
     /\ pc = "sleep_off" /\ last_status = "OPEN"
     /\ nproc > 0 /\ ~launchFailed)
    => (recording_info.status \in TerminalStatus /\ cur = 0)

\* C13: handle_live_end is invoked once per Live -> non-Live edge: the loop
\* is in it only in the iteration of a non-Live poll that follows a Live poll.
C13_EndSessionOncePerEdge ==
    InHandleLiveEnd => (prevPoll = "Live" /\ curPoll # "Live")

C15_NoRelaunchAfterNonZeroExit ==
    [][(nonZeroExit /\ pc # "live_start") => pc' # "live_start"]_vars

\* C16: stop_recording on a running process sends terminate, waits, kills
\* only after the timeout, and no exception leaves it: a call ends in one of
\* the listed ways and never by an exception that is propagated.
C16_StopNeverPropagates ==
    stopLog \in {<<>>, <<"noop">>, <<"logged">>, <<"terminate">>,
                 <<"terminate", "kill">>}

\* C17: a call of stop_recording that finds no handle (such as the second of
\* two calls in succession) sends no terminate or kill and leaves the
\* handle, the processes and recording_info with its end time unchanged.
C17_SecondStopIsNoop ==
    [][(stopLog # <<"noop">> /\ stopLog' = <<"noop">>)
         => /\ cur = 0 /\ stoppc' = "idle"
            /\ UNCHANGED <<cur, proc, returncode, recording_info>>]_vars

C17_Witness ==
    /\ stopLog = <<"noop">> /\ stoppc = "idle"
    /\ recording_info.status = "stopped" /\ recording_info.end_time
    /\ cur = 0

\* C18: when the signal handler has sent terminate to the current process,
\* it does not end before that process has exited, by itself within the
\* grace period or by the kill after it.
C18_ShutdownStopsCapture ==
    (sigTarget # 0 /\ sigpc \in {"done", "raised"})
    => proc[sigTarget] = "exited"

\* C19: a signal that arrives while the handler is in its terminate-and-wait
\* does not start a second terminate-and-wait.
C19_ShutdownIdempotent == sigpc # "wait_nested"

\* C20: shutdown is cooperative: the operation of the poll loop that is in
\* flight when shutdown_flag is set is not preempted, so the program does
\* not end with the loop in the middle of an iteration.
C20_InFlightNotPreempted ==
    (shutdown_flag /\ ~Running) => pc \notin (LoopPcs \ {"top"})

\* C23: whenever there is a current handle, the status of the session is
\* 'recording' (hosting.py has no separate status for launching), never a
\* terminal one.
C23_HandleImpliesRecording ==
    (variant # "script" /\ cur # 0) => recording_info.status = "recording"

\* C24: once the status of a session is terminal it does not change again:
\* a terminal status is replaced only by the 'recording' of the next
\* session, which run_streamlink writes into a new dict.
C24_TerminalStatusIsFinal ==
    [][(recording_info.status \in TerminalStatus
          /\ recording_info'.status # "recording")
         => recording_info'.status = recording_info.status]_vars

\* C25: the handle of a process that its exit watcher has already reaped
\* (communicate() has returned) is never the current handle, so that no
\* reader of the handle can see it.
C25_NoCurrentReapedHandle ==
    cur # 0 => watcher[cur] \notin {"recorded", "done"}

\* C27: between two polls the loop has slept 10 after a Live result and
\* check_interval after an Offline or Unknown result.
C27_SleepCadence ==
    (pc = "top" /\ npolls > 0 /\ sigpc = "idle")
    => /\ curPoll = "Live" => lastSleep = LiveInterval
       /\ curPoll \in {"Offline", "Unknown"} => lastSleep = CheckInterval

\* The poll loop takes the step of check_recording_status that follows the
\* discovery of a dead process.
ProbeFoundDead == pc = "check_clear" /\ pc' = "sleep_live"

\* C28 as stated: check_recording_status only observes, the step after it
\* found the process dead leaves the current handle unchanged.
C28_ProbeOnlyObserves ==
    [][ProbeFoundDead => cur' = cur]_vars

\* C28, amended: when check_recording_status finds the process dead it sets
\* the current handle to None itself and leaves recording_info, the
\* processes and the watchers unchanged.
C28_ProbeClearsHandle ==
    [][ProbeFoundDead
         => /\ cur' = 0
            /\ UNCHANGED <<recording_info, proc, returncode, watcher>>]_vars

C28_Witness ==
    /\ variant = "console" /\ pc = "sleep_live"
    /\ nproc = 1 /\ ~launchFailed
    /\ proc[1] = "exited" /\ watcher[1] = "waiting"
    /\ cur = 0 /\ recording_info.status = "recording"

\* C29: the loop of callisto.py does in every iteration what the class-based
\* loop does when nothing interferes: when the next poll is due, last_status
\* is the status just polled and the error counter is 0.
C29_ScriptLoopMatchesClassLoop ==
    (variant = "script" /\ pc = "top" /\ npolls > 0 /\ sigpc = "idle")
    => (last_status = status /\ retry_count = 0)

\* C30: handle_live_start stops at the first successful launch: the
\* successful call is the last of the retry loop and comes after as many
\* failed calls (each followed by its sleep) as its index says, one watcher
\* has been started for each process launched and for nothing else, and the
\* loop has left handle_live_start.
C30_StopsAtFirstSuccess ==
    (Len(attemptLog) > 0 /\ attemptLog[Len(attemptLog)] = LaunchOk)
    => /\ pc # "live_start"
       /\ attempt < RetryCountMax
       /\ Len(attemptLog) = 2 * attempt + 1
       /\ \A i \in 1..(Len(attemptLog) - 1) :
             attemptLog[i] = IF i % 2 = 1 THEN LaunchFailed
                             ELSE Slept(RetryDelay)
       /\ \A p \in Procs : (watcher[p] # "none") <=> (p <= nproc)

C30_Witness ==
    /\ variant # "script"
    /\ attemptLog = <<LaunchFailed, Slept(RetryDelay), LaunchOk>>
    /\ pc = "check" /\ cur # 0
    /\ proc[cur] = "running" /\ watcher[cur] = "waiting"

\* C21 as stated: get_status takes the channel status it reports from the
\* stored state, that is from last_status.
C21_SnapshotFromStoredState ==
    snapshot.taken => snapshot.live_status = snapshot.last_status

\* C21, amended: a call of get_status leaves every variable of the recorder
\* unchanged (handle, recording_info, last_status, retry_count,
\* shutdown_flag), and so the poll loop, the processes and the watchers.
C21_SnapshotChangesNothing ==
    [][snapshot' # snapshot
         => UNCHANGED <<cur, recording_info, last_status, retry_count,
                        shutdown_flag, pc, status, proc, returncode,
                        watcher, npolls>>]_vars

C21_Witness ==
    /\ snapshot.taken /\ snapshot.live_status = "OPEN"
    /\ snapshot.last_status = "CLOSE" /\ last_status = "CLOSE"
    /\ snapshot.recording_status = "recording" /\ snapshot.is_recording

\* C22: a snapshot that reports 'completed' also reports a start time, an
\* end time and is_recording = False.
C22_SnapshotAfterCompleted ==
    (snapshot.taken /\ snapshot.recording_status = "completed")
    => (snapshot.start_time /\ snapshot.end_time /\ ~snapshot.is_recording)

\* The step is a call of api_start that was rejected.
StartRejected == startLog # "rejected" /\ startLog' = "rejected"

\* C26: no poll loop is left running on a replaced recorder, so that at
\* most one poll loop runs at any time, and a call of api_start that is
\* rejected happens while the loop is alive and changes neither the
\* recorder nor the loop.
C26_StartIsIdempotent ==
    [][/\ orphans' = 0
       /\ StartRejected
          => /\ MonitorAlive
             /\ UNCHANGED <<pc, cur, recording_info, last_status,
                            retry_count, shutdown_flag, status, watcher,
                            proc, npolls>>]_vars

C26_Witness ==
    /\ startLog = "rejected" /\ pc \in LoopPcs /\ npolls > 0
    /\ cur # 0 /\ orphans = 0

\* The step is a status query that failed (request error, bad answer).
QueryFails == npolls' = npolls + 1 /\ curPoll' = "Transient"

\* The step is a call of run_streamlink that failed.
LaunchFails ==
    /\ pc = "live_start"
    /\ Len(attemptLog') > Len(attemptLog)
    /\ attemptLog'[Len(attemptLog) + 1] = LaunchFailed

\* C31: a failing status query comes back as the result without a status
\* and the loop branches on it; a failing launcher call comes back as a
\* failed attempt with the handle None and no process; neither enters the
\* except clause of the poll loop (retry_count is not incremented, the
\* loop does not sleep 30 and does not stop).
C31_CollaboratorErrorsContained ==
    [][/\ QueryFails
          => /\ status' = "None"
             /\ pc' = AfterPoll("None")
             /\ retry_count' = retry_count
             /\ lastSleep' = lastSleep
       /\ LaunchFails
          => /\ cur' = 0
             /\ nproc' = nproc
             /\ attempt' = attempt + 1
             /\ pc' \in {"live_start", "check"}
             /\ retry_count' = retry_count
             /\ lastSleep' \in {lastSleep, RetryDelay}]_vars

C31_Witness ==
    /\ curPoll = "Transient" /\ prevPoll = "Live" /\ pc = "end"
    /\ launchFailed /\ nproc = 0 /\ cur = 0
    /\ retry_count = 0 /\ lastSleep = LiveInterval

\* C32: a step of the exit watcher of process p changes the handle only if
\* the handle is that of p, and changes recording_info only if p is the
\* latest process launched (the session recording_info describes).
C32_WatcherTouchesOwnSessionOnly ==
    [][\A p \in Procs :
          (watcher'[p] # watcher[p] /\ watcher'[p] \in {"recorded", "done"})
          => /\ cur' # cur => cur = p
             /\ recording_info' # recording_info => p = nproc]_vars

\* C33: in every dict get_status returns, is_recording is true exactly when
\* process_pid is not None, and is_recording = True goes with the
\* recording status 'recording'.
C33_SnapshotConsistent ==
    snapshot.taken
    => /\ snapshot.is_recording <=> snapshot.process_pid # 0
       /\ snapshot.is_recording => snapshot.recording_status = "recording"

\* C34: no context stands between its test of the handle and its use of
\* it while the handle is None, so that none of the uses raises: the poll
\* loop before handle.poll() and handle.wait(), get_status before
\* handle.pid, stop_recording before handle.terminate().
C34_NoUseOfClearedHandle ==
    /\ pc \in {"check_poll", "end_wait"} => cur # 0
    /\ statuspc = "pid_read" => cur # 0
    /\ stoppc = "terminate" => cur # 0
    /\ statuspc # "raised"

\* C35: once the program has exited, no capture process it launched is
\* still running.
C35_NoProcessLeftRunning ==
    ~Running => \A p \in Procs : proc[p] # "running"

\* The step belongs to a call of stop_recording.
StopStep == stoppc' # stoppc \/ stopLog' # stopLog

\* C36: a call of stop_recording leaves the poll loop alone (its position,
\* last_status, retry_count, shutdown_flag), and after it ended a process
\* while the channel was Live the launcher is not entered again as long as
\* the polls stay Live.
C36_StopOnlyEndsRecording ==
    [][/\ StopStep => UNCHANGED <<pc, last_status, retry_count, shutdown_flag>>
       /\ (stoppedLive /\ pc # "live_start") => pc' # "live_start"]_vars

\* The latest poll was a Live -> non-Live edge and its iteration is going on.
AfterOfflineEdge ==
    /\ prevPoll = "Live" /\ curPoll \in PollResults \ {"Live"}
    /\ pc \in LoopPcs \ {"top"}

\* C37: when every capture process eventually exits and the loop thread is
\* scheduled, the iteration of a Live -> non-Live edge ends: the loop comes
\* back to its while test, ready for the next poll, unless a shutdown was
\* requested.
C37_OfflineEdgeIterationEnds ==
    AfterOfflineEdge ~> (pc = "top" \/ shutdown_flag)

C37_Witness ==
    /\ AfterOfflineEdge /\ pc = "end_block"
    /\ proc[waitingOn] = "running" /\ ~shutdown_flag

====
